---- MODULE Spec2Model ----
(***************************************************************************)
(* A model of the two agents of the stock analysis pipeline:               *)
(*   DataCollectorAgent.process  (src/agents/data_collector_agent.py)      *)
(*   AnalysisAgent.process       (src/agents/analysis_agent.py)            *)
(* Text is a sequence of one-character strings, a price series a sequence  *)
(* of row records, a Python dict a function whose DOMAIN is its key set.   *)
(* Closing prices are integers (an amount in cents): sums of such floats   *)
(* are exact, and a quotient is kept as a numerator/denominator pair.      *)
(***************************************************************************)
EXTENDS Integers, Sequences, FiniteSets, TLC

\* ------------------------------------------------------------------ bounds
\* process calls made on each agent in one behaviour
MaxCalls == 2
\* points of the longest generated price series beyond the 50-point minimum
MaxExtra == 2
\* free day-over-day deltas at the tail of a generated price series
FreeTail == 3
\* segments of a generated reply text
MaxSegs == 3

\* ------------------------------------------------------- program constants
MinPoints == 50
MA20Window == 20
MA50Window == 50
RsiWindow == 14
TrendSpan == 10
RecWindow == 100
RecHead == 30
ConfWindow == 50
ConfHead == 15

\* --------------------------------------------------------------- Python
\* dict.get(key, default)
Get(m, k, d) == IF k \in DOMAIN m THEN m[k] ELSE d

\* s[a:b] for 0 <= a <= b, on a sequence indexed from 1
Slice(s, a, b) == SubSeq(s, a + 1, IF b < Len(s) THEN b ELSE Len(s))

IsSpace(c) == c \in {" ", "\n", "\t", "\r"}

RECURSIVE LStrip(_)
LStrip(s) == IF s # << >> /\ IsSpace(Head(s)) THEN LStrip(Tail(s)) ELSE s

RECURSIVE RStrip(_)
RStrip(s) ==
  IF s # << >> /\ IsSpace(s[Len(s)]) THEN RStrip(SubSeq(s, 1, Len(s) - 1)) ELSE s

\* str.strip()
Strip(s) == RStrip(LStrip(s))

\* whether p occurs in s at 0-based offset i
MatchAt(s, p, i) == \A k \in 1..Len(p) : s[i + k] = p[k]

\* str.find(p): the least 0-based offset at which p occurs in s, or -1
RECURSIVE FindFrom(_, _, _)
FindFrom(s, p, i) ==
  IF i + Len(p) > Len(s) THEN -1
  ELSE IF MatchAt(s, p, i) THEN i
  ELSE FindFrom(s, p, i + 1)

Find(s, p) == FindFrom(s, p, 0)

\* p in s
Contains(s, p) == Find(s, p) # -1

LowerCase == <<"a","b","c","d","e","f","g","h","i","j","k","l","m",
               "n","o","p","q","r","s","t","u","v","w","x","y","z">>
UpperCase == <<"A","B","C","D","E","F","G","H","I","J","K","L","M",
               "N","O","P","Q","R","S","T","U","V","W","X","Y","Z">>

\* the upper-case letter of each lower-case letter
UpperOf == [c \in {LowerCase[i] : i \in 1..26} |->
              UpperCase[CHOOSE i \in 1..26 : LowerCase[i] = c]]

\* str.upper() of one character: a letter is case-folded, the sharp s becomes
\* two characters, anything else is kept
UpperChar(c) ==
  IF c = "ß" THEN <<"S", "S">>
  ELSE IF c \in DOMAIN UpperOf THEN <<UpperOf[c]>>
  ELSE <<c>>

RECURSIVE UpperFrom(_, _)
UpperFrom(s, i) ==
  IF i > Len(s) THEN << >> ELSE UpperChar(s[i]) \o UpperFrom(s, i + 1)

\* str.upper(): character by character; the length is kept unless a
\* character folds to two
Upper(s) ==
  IF \A i \in 1..Len(s) : s[i] # "ß"
  THEN [i \in 1..Len(s) |-> UpperChar(s[i])[1]]
  ELSE UpperFrom(s, 1)

\* ------------------------------------------------------------ the literals
T_BUY == <<"B","U","Y">>
T_SELL == <<"S","E","L","L">>
T_HOLD == <<"H","O","L","D">>
T_HIGH == <<"H","I","G","H">>
T_MEDIUM == <<"M","E","D","I","U","M">>
T_LOW == <<"L","O","W">>
T_RECOMMENDATION == <<"R","E","C","O","M","M","E","N","D","A","T","I","O","N">>
T_CONFIDENCE == <<"C","O","N","F","I","D","E","N","C","E">>

rec_patterns ==
  << T_RECOMMENDATION \o <<":">>,
     <<"*","*">> \o T_RECOMMENDATION \o <<":","*","*">>,
     T_RECOMMENDATION >>

conf_patterns ==
  << T_CONFIDENCE \o <<":">>,
     <<"*","*">> \o T_CONFIDENCE \o <<":","*","*">>,
     T_CONFIDENCE >>

\* str.rfind(p): the greatest 0-based offset at which p occurs in s, or -1
RECURSIVE RFindFrom(_, _, _)
RFindFrom(s, p, i) ==
  IF i < 0 THEN -1
  ELSE IF MatchAt(s, p, i) THEN i
  ELSE RFindFrom(s, p, i - 1)

\* HeaderPart taking the last occurrence of the spelling instead of the first
HeaderPartLast(analysis, analysis_upper, pattern, window) ==
  LET idx == RFindFrom(analysis_upper, Upper(pattern), Len(analysis_upper) - Len(pattern))
  IN Strip(Slice(analysis, idx + Len(pattern), idx + Len(pattern) + window))

\* the text inspected for one header spelling: the window after its first
\* occurrence in the case-folded text, cut from the original text, stripped
HeaderPart(analysis, analysis_upper, pattern, window) ==
  LET idx == Find(analysis_upper, Upper(pattern))
  IN Strip(Slice(analysis, idx + Len(pattern), idx + Len(pattern) + window))

\* the loop over rec_patterns, from pattern k on
RECURSIVE RecLoop(_, _, _)
RecLoop(analysis, analysis_upper, k) ==
  IF k > Len(rec_patterns) THEN "HOLD"
  ELSE IF ~Contains(analysis_upper, Upper(rec_patterns[k]))
       THEN RecLoop(analysis, analysis_upper, k + 1)
       ELSE LET rec_part == HeaderPart(analysis, analysis_upper, rec_patterns[k], RecWindow)
                head == Slice(rec_part, 0, RecHead)
            IN IF Contains(head, T_BUY) THEN "BUY"
               ELSE IF Contains(head, T_SELL) THEN "SELL"
               ELSE IF Contains(head, T_HOLD) THEN "HOLD"
               ELSE RecLoop(analysis, analysis_upper, k + 1)

\* ExtractRecommendation without the "HOLD" default
ExtractRecommendationNoDefault(analysis) ==
  IF Contains(Upper(analysis), T_RECOMMENDATION)
  THEN RecLoop(analysis, Upper(analysis), 1)
  ELSE ""

ExtractRecommendation(analysis) == RecLoop(analysis, Upper(analysis), 1)

\* the loop over conf_patterns, from pattern k on
RECURSIVE ConfLoop(_, _, _)
ConfLoop(analysis, analysis_upper, k) ==
  IF k > Len(conf_patterns) THEN "LOW"
  ELSE IF ~Contains(analysis_upper, Upper(conf_patterns[k]))
       THEN ConfLoop(analysis, analysis_upper, k + 1)
       ELSE LET conf_part == HeaderPart(analysis, analysis_upper, conf_patterns[k], ConfWindow)
                head == Slice(conf_part, 0, ConfHead)
            IN IF Contains(head, T_HIGH) THEN "HIGH"
               ELSE IF Contains(head, T_MEDIUM) THEN "MEDIUM"
               ELSE IF Contains(head, T_LOW) THEN "LOW"
               ELSE ConfLoop(analysis, analysis_upper, k + 1)

ExtractConfidence(analysis) == ConfLoop(analysis, Upper(analysis), 1)

\* ---------------------------------------------------------------- numbers
\* a float that is a quotient of integers, or NaN
Num(n, d) == [nan |-> FALSE, num |-> n, den |-> d]
NaN == [nan |-> TRUE, num |-> 0, den |-> 1]

RECURSIVE SumRange(_, _, _)
SumRange(s, a, b) == IF a > b THEN 0 ELSE s[a] + SumRange(s, a + 1, b)

\* Series.rolling(window=w).mean(): NaN until the window is full
RollingMean(s, w) ==
  [i \in 1..Len(s) |-> IF i < w THEN NaN ELSE Num(SumRange(s, i - w + 1, i), w)]

\* pd.to_datetime of a date string <<format, day>>: the day it denotes
ToDatetime(d) == d[2]

\* pd.DataFrame(historical_data), with 'Date' converted to datetime: a mapping
\* from column name to column
DataFrame(historical_data) ==
  [c \in {"Date", "Close", "Volume"} |->
     [i \in 1..Len(historical_data) |->
        IF c = "Date" THEN ToDatetime(historical_data[i].Date)
        ELSE historical_data[i][c]]]

\* delta = Close.diff(); gain = delta.where(delta > 0, 0): the first delta is
\* NaN, NaN > 0 is false, and where() puts 0 there
Gain(close) ==
  [i \in 1..Len(close) |->
     IF i > 1 /\ close[i] - close[i - 1] > 0 THEN close[i] - close[i - 1] ELSE 0]

\* loss = -delta.where(delta < 0, 0)
Loss(close) ==
  [i \in 1..Len(close) |->
     IF i > 1 /\ close[i] - close[i - 1] < 0 THEN close[i - 1] - close[i] ELSE 0]

\* rs = avg_gain / avg_loss; 100 - (100 / (1 + rs)), on the two 14-point means
\* (quotients of the window sums g and l by 14). In floating point x/0 is inf
\* for x > 0, and 0/0 is NaN; 100/(1 + inf) is 0; anything with NaN is NaN.
RsiOf(avg_gain, avg_loss) ==
  IF avg_gain.nan \/ avg_loss.nan THEN NaN
  ELSE IF avg_loss.num = 0
       THEN IF avg_gain.num = 0 THEN NaN ELSE Num(100, 1)
       ELSE Num(100 * avg_gain.num, avg_gain.num + avg_loss.num)

\* df['RSI']
RsiColumn(close) ==
  LET avg_gain == RollingMean(Gain(close), RsiWindow)
      avg_loss == RollingMean(Loss(close), RsiWindow)
  IN [i \in 1..Len(close) |-> RsiOf(avg_gain[i], avg_loss[i])]

\* latest_close > df[col].iloc[-1]: a comparison with NaN is false
AboveSignal(latest_close, ma) ==
  IF ~ma.nan /\ latest_close * ma.den > ma.num THEN "above" ELSE "below"

\* Close.iloc[-10:].mean() > Close.iloc[-20:-10].mean()
RecentTrend(close) ==
  LET n == Len(close)
  IN IF SumRange(close, n - TrendSpan + 1, n)
          > SumRange(close, n - 2 * TrendSpan + 1, n - TrendSpan)
     THEN "uptrend" ELSE "downtrend"

\* df after the moving-average and RSI columns are added (len(df) >= 50), or
\* df unchanged
WithIndicators(df) ==
  IF Len(df["Close"]) >= MinPoints
  THEN [c \in DOMAIN df \cup {"MA20", "MA50", "RSI"} |->
          IF c = "MA20" THEN RollingMean(df["Close"], MA20Window)
          ELSE IF c = "MA50" THEN RollingMean(df["Close"], MA50Window)
          ELSE IF c = "RSI" THEN RsiColumn(df["Close"])
          ELSE df[c]]
  ELSE df

NotEnoughData == "Not enough data points for technical analysis"

\* TechnicalAnalysis with the threshold off by one: len(df) > 50
TechnicalAnalysisOffByOne(df) ==
  LET close == df["Close"]
      n == Len(close)
  IN IF n > MinPoints
     THEN [latest_close |-> close[n],
           ma20_signal |-> AboveSignal(close[n], df["MA20"][n]),
           ma50_signal |-> AboveSignal(close[n], df["MA50"][n]),
           rsi |-> df["RSI"][n],
           trend |-> RecentTrend(close)]
     ELSE [error |-> "Not enough data points for technical analysis"]

\* technical_analysis, from df with its indicator columns
TechnicalAnalysis(df) ==
  LET close == df["Close"]
      n == Len(close)
  IN IF n >= MinPoints
     THEN [latest_close |-> close[n],
           ma20_signal |-> AboveSignal(close[n], df["MA20"][n]),
           ma50_signal |-> AboveSignal(close[n], df["MA50"][n]),
           rsi |-> df["RSI"][n],
           trend |-> RecentTrend(close)]
     ELSE [error |-> NotEnoughData]

\* df[df["Date"] == date].index: the rows whose converted date is the date
\* the string denotes
DateIndex(df, date) == {i \in 1..Len(df["Date"]) : df["Date"][i] = ToDatetime(date)}

\* MaField without the pd.isna check: the NaN placeholder is emitted
MaFieldKeepNaN(df, row, col, key) ==
  IF col \in DOMAIN df
  THEN LET idx == DateIndex(df, row.Date)
       IN IF idx # {}
          THEN (key :> df[col][CHOOSE i \in idx : \A j \in idx : i <= j])
          ELSE << >>
  ELSE << >>

\* the ma20 / ma50 entry of one chart point: present when the column exists,
\* a row of that date exists and the value in the first such row is not NaN
MaField(df, row, col, key) ==
  IF col \in DOMAIN df
  THEN LET idx == DateIndex(df, row.Date)
       IN IF idx # {}
          THEN LET first == CHOOSE i \in idx : \A j \in idx : i <= j
               IN IF ~df[col][first].nan THEN (key :> df[col][first]) ELSE << >>
          ELSE << >>
  ELSE << >>

ChartPoint(df, row) ==
  [date |-> row.Date, close |-> row.Close, volume |-> row.Volume]
    @@ MaField(df, row, "MA20", "ma20") @@ MaField(df, row, "MA50", "ma50")

\* chart_data: one point per record of historical_data, in order
ChartData(df, historical_data) ==
  [i \in 1..Len(historical_data) |-> ChartPoint(df, historical_data[i])]


\* ------------------------------------------------------------ agent state
None == << >>
Some(v) == <<v>>

\* `not v` of a list, a dict or a string held as a sequence or a function
Empty(v) == DOMAIN v = {}

ErrorEnvelope(message) == [success |-> FALSE, error |-> message]

\* config.TIME_PERIODS: period code -> description
TIME_PERIODS == [c \in {"1mo", "6mo", "1y"} |->
                   IF c = "1mo" THEN "1 Month" ELSE IF c = "6mo" THEN "6 Months" ELSE "1 Year"]

VARIABLES
  dcStatus,   \* DataCollectorAgent.status, a label with its arguments
  dcResult,   \* DataCollectorAgent.result: None or Some(result)
  dcError,    \* DataCollectorAgent.error: None or Some(message)
  dcPc,       \* where DataCollectorAgent.process stands ("ready": not running)
  dcFrame,    \* the local variables of the running process call; after it
              \* returned, the input it was given
  dcRet,      \* what the last process call returned: None while it runs
  dcInvoked,  \* the collaborators the running/last call invoked, in order
  dcCalls,    \* process calls begun on the DataCollectorAgent
  anStatus, anResult, anError, anPc, anFrame, anRet, anInvoked, anCalls
              \* the same, of the AnalysisAgent

dcVars == <<dcStatus, dcResult, dcError, dcPc, dcFrame, dcRet, dcInvoked, dcCalls>>
anVars == <<anStatus, anResult, anError, anPc, anFrame, anRet, anInvoked, anCalls>>
vars == <<dcVars, anVars>>

\* BaseAgent.__init__: status idle, nothing held
Init ==
  /\ dcStatus = <<"idle">> /\ dcResult = None /\ dcError = None
  /\ dcPc = "ready" /\ dcFrame = << >> /\ dcRet = None /\ dcInvoked = << >> /\ dcCalls = 0
  /\ anStatus = <<"idle">> /\ anResult = None /\ anError = None
  /\ anPc = "ready" /\ anFrame = << >> /\ anRet = None /\ anInvoked = << >> /\ anCalls = 0

\* what a collaborator call does: return a value or raise
Return(v) == [kind |-> "return", value |-> v]
Raise(message) == [kind |-> "raise", message |-> message]

\* one entry of the log of collaborator calls: the function called, its
\* arguments and what it did
Call(name, args, outcome) == [call |-> name, args |-> args, outcome |-> outcome]

\* ------------------------------------------------- DataCollectorAgent.process
\* DCFail with the exception left to propagate: nothing is returned
DCFailReraise(message) ==
  /\ dcError' = Some(message)
  /\ dcStatus' = <<"error">>
  /\ dcRet' = None
  /\ dcPc' = "ready"
  /\ dcFrame' = [input_data |-> dcFrame.input_data]
  /\ UNCHANGED dcResult

\* DCFail that also forgets the held result
DCFailClearsResult(message) ==
  /\ dcError' = Some(message)
  /\ dcStatus' = <<"error">>
  /\ dcRet' = Some(ErrorEnvelope(message))
  /\ dcPc' = "ready"
  /\ dcFrame' = [input_data |-> dcFrame.input_data]
  /\ dcResult' = None

\* the except clause, and the provider-failure return: hold the message, set
\* the status, return the envelope
DCFail(message) ==
  /\ dcError' = Some(message)
  /\ dcStatus' = <<"error">>
  /\ dcRet' = Some(ErrorEnvelope(message))
  /\ dcPc' = "ready"
  /\ dcFrame' = [input_data |-> dcFrame.input_data]
  /\ UNCHANGED dcResult

\* process is entered: update_status("processing")
DCBegin(input_data) ==
  /\ dcPc = "ready"
  /\ dcStatus' = <<"processing">>
  /\ dcPc' = "validate"
  /\ dcFrame' = [input_data |-> input_data]
  /\ dcRet' = None
  /\ dcInvoked' = << >>
  /\ dcCalls' = dcCalls + 1
  /\ UNCHANGED <<dcResult, dcError, anVars>>

\* DCValidate rejecting a period code that is not in the table
DCValidateStrictPeriod ==
  /\ dcPc = "validate"
  /\ LET symbol == Get(dcFrame.input_data, "symbol", "")
         period == Get(dcFrame.input_data, "period", "1y")
     IN IF symbol = ""
        THEN DCFail("Stock symbol is required")
        ELSE IF period \notin DOMAIN TIME_PERIODS
        THEN DCFail("Invalid period")
        ELSE /\ dcStatus' = <<"collecting historical data for", symbol, TIME_PERIODS[period]>>
             /\ dcFrame' = dcFrame @@ [symbol |-> symbol, period |-> period]
             /\ dcPc' = "fetch_stock_data"
             /\ UNCHANGED <<dcResult, dcError, dcRet>>
  /\ UNCHANGED <<dcInvoked, dcCalls, anVars>>

\* symbol and period are read and checked
DCValidate ==
  /\ dcPc = "validate"
  /\ LET symbol == Get(dcFrame.input_data, "symbol", "")
         given == Get(dcFrame.input_data, "period", "1y")
         period == IF given \in DOMAIN TIME_PERIODS THEN given ELSE "1y"
     IN IF symbol = ""
        THEN DCFail("Stock symbol is required")
        ELSE /\ dcStatus' = <<"collecting historical data for", symbol, TIME_PERIODS[period]>>
             /\ dcFrame' = dcFrame @@ [symbol |-> symbol, period |-> period]
             /\ dcPc' = "fetch_stock_data"
             /\ UNCHANGED <<dcResult, dcError, dcRet>>
  /\ UNCHANGED <<dcInvoked, dcCalls, anVars>>

\* DCFetchStockData without the success check
DCFetchStockDataUnchecked(outcomes) ==
  /\ dcPc = "fetch_stock_data"
  /\ \E o \in outcomes :
       /\ dcInvoked' = Append(dcInvoked, Call("fetch_stock_data", <<dcFrame.symbol, dcFrame.period>>, o))
       /\ IF o.kind = "raise" THEN DCFail(o.message)
          ELSE /\ dcStatus' = <<"collecting news for", dcFrame.symbol>>
               /\ dcFrame' = dcFrame @@ [historical_data |-> o.value]
               /\ dcPc' = "fetch_news"
               /\ UNCHANGED <<dcResult, dcError, dcRet>>
  /\ UNCHANGED <<dcCalls, anVars>>

\* historical_data = fetch_stock_data(symbol, period), and the success check
DCFetchStockData(outcomes) ==
  /\ dcPc = "fetch_stock_data"
  /\ \E o \in outcomes :
       /\ dcInvoked' = Append(dcInvoked, Call("fetch_stock_data", <<dcFrame.symbol, dcFrame.period>>, o))
       /\ IF o.kind = "raise" THEN DCFail(o.message)
          ELSE IF ~o.value.success THEN DCFail(o.value.error)
          ELSE /\ dcStatus' = <<"collecting news for", dcFrame.symbol>>
               /\ dcFrame' = dcFrame @@ [historical_data |-> o.value]
               /\ dcPc' = "fetch_news"
               /\ UNCHANGED <<dcResult, dcError, dcRet>>
  /\ UNCHANGED <<dcCalls, anVars>>

\* DCFetchNews treating an empty news list as a failure of the stage
DCFetchNewsStrict(outcomes) ==
  /\ dcPc = "fetch_news"
  /\ \E o \in outcomes :
       /\ dcInvoked' = Append(dcInvoked, Call("fetch_news", <<dcFrame.symbol>>, o))
       /\ IF o.kind = "raise" THEN DCFail(o.message)
          ELSE IF Empty(o.value) THEN DCFail("No news found")
          ELSE /\ dcStatus' = <<"collecting fundamentals for", dcFrame.symbol>>
               /\ dcFrame' = dcFrame @@ [news |-> o.value]
               /\ dcPc' = "get_stock_fundamentals"
               /\ UNCHANGED <<dcResult, dcError, dcRet>>
  /\ UNCHANGED <<dcCalls, anVars>>

\* news = fetch_news(symbol)
DCFetchNews(outcomes) ==
  /\ dcPc = "fetch_news"
  /\ \E o \in outcomes :
       /\ dcInvoked' = Append(dcInvoked, Call("fetch_news", <<dcFrame.symbol>>, o))
       /\ IF o.kind = "raise" THEN DCFail(o.message)
          ELSE /\ dcStatus' = <<"collecting fundamentals for", dcFrame.symbol>>
               /\ dcFrame' = dcFrame @@ [news |-> o.value]
               /\ dcPc' = "get_stock_fundamentals"
               /\ UNCHANGED <<dcResult, dcError, dcRet>>
  /\ UNCHANGED <<dcCalls, anVars>>

\* fundamentals = get_stock_fundamentals(symbol)
DCFetchFundamentals(outcomes) ==
  /\ dcPc = "get_stock_fundamentals"
  /\ \E o \in outcomes :
       /\ dcInvoked' = Append(dcInvoked, Call("get_stock_fundamentals", <<dcFrame.symbol>>, o))
       /\ IF o.kind = "raise" THEN DCFail(o.message)
          ELSE /\ dcFrame' = dcFrame @@ [fundamentals |-> o.value]
               /\ dcPc' = "call_ollama"
               /\ UNCHANGED <<dcStatus, dcResult, dcError, dcRet>>
  /\ UNCHANGED <<dcCalls, anVars>>

\* the data collection summary prompt, by the values it interpolates
DCPrompt(f) ==
  [symbol |-> f.symbol,
   period |-> TIME_PERIODS[f.period],
   historical_points |-> Len(f.historical_data.data),
   news_articles |-> Len(f.news),
   source |-> Get(f.historical_data, "source", "unknown")]

\* the result bundle; now is datetime.now()
DCResult(f, data_insights, now) ==
  [success |-> TRUE,
   symbol |-> f.symbol,
   period |-> f.period,
   period_description |-> TIME_PERIODS[f.period],
   historical_data |-> [success |-> f.historical_data.success,
                        data |-> f.historical_data.data,
                        info |-> f.historical_data.info,
                        source |-> Get(f.historical_data, "source", "unknown")],
   news |-> f.news,
   fundamentals |-> f.fundamentals,
   data_insights |-> data_insights,
   timestamp |-> now,
   chart_data |-> f.historical_data.data,
   company_info |-> f.historical_data.info]

\* data_insights = self._call_ollama(prompt, ...), the result bundle, return
DCCallOllama(outcomes) ==
  /\ dcPc = "call_ollama"
  /\ \E o \in outcomes :
       /\ dcInvoked' = Append(dcInvoked, Call("_call_ollama", <<DCPrompt(dcFrame)>>, o))
       /\ IF o.kind = "raise" THEN DCFail(o.message)
          ELSE \E result \in {DCResult(dcFrame, o.value, dcCalls)} :
                  /\ dcResult' = Some(result)
                  /\ dcStatus' = <<"completed">>
                  /\ dcRet' = Some(result)
                  /\ dcPc' = "ready"
                  /\ dcFrame' = [input_data |-> dcFrame.input_data]
                  /\ UNCHANGED dcError
  /\ UNCHANGED <<dcCalls, anVars>>


\* --------------------------------------------------- AnalysisAgent.process
NewsLimit == 3
MonthSpan == 30

\* AFail without update_status("error")
AFailNoStatus(message) ==
  /\ anError' = Some(message)
  /\ anRet' = Some(ErrorEnvelope(message))
  /\ anPc' = "ready"
  /\ anFrame' = [input_data |-> anFrame.input_data]
  /\ UNCHANGED <<anResult, anStatus>>

\* the except clause: hold the message, set the status, return the envelope
AFail(message) ==
  /\ anError' = Some(message)
  /\ anStatus' = <<"error">>
  /\ anRet' = Some(ErrorEnvelope(message))
  /\ anPc' = "ready"
  /\ anFrame' = [input_data |-> anFrame.input_data]
  /\ UNCHANGED anResult

\* process is entered: update_status("processing")
ABegin(input_data) ==
  /\ anPc = "ready"
  /\ anStatus' = <<"processing">>
  /\ anPc' = "validate"
  /\ anFrame' = [input_data |-> input_data]
  /\ anRet' = None
  /\ anInvoked' = << >>
  /\ anCalls' = anCalls + 1
  /\ UNCHANGED <<anResult, anError, dcVars>>

\* HistoricalData without the fallback to chart_data
HistoricalDataNoFallback(input_data) ==
  Get(Get(input_data, "historical_data", << >>), "data", << >>)

\* historical_data: the primary field, or chart_data when the primary is empty
HistoricalData(input_data) ==
  LET primary == Get(Get(input_data, "historical_data", << >>), "data", << >>)
      chart_data == Get(input_data, "chart_data", << >>)
  IN IF Empty(primary) /\ ~Empty(chart_data) THEN chart_data ELSE primary

\* company_info: historical_data.info, or the company_info field when empty
CompanyInfo(input_data) ==
  LET info == Get(Get(input_data, "historical_data", << >>), "info", << >>)
  IN IF Empty(info) THEN Get(input_data, "company_info", << >>) ELSE info

\* the input is checked and the data frame built
AValidate ==
  /\ anPc = "validate"
  /\ LET input_data == anFrame.input_data
     IN IF ~Get(input_data, "success", FALSE)
        THEN AFail("Invalid input data")
        ELSE IF Empty(HistoricalData(input_data))
        THEN AFail("No historical data available for analysis")
        ELSE /\ anFrame' = anFrame @@
                  [symbol |-> Get(input_data, "symbol", ""),
                   period |-> Get(input_data, "period_description", ""),
                   historical_data |-> HistoricalData(input_data),
                   company_info |-> CompanyInfo(input_data),
                   news |-> Get(input_data, "news", << >>),
                   fundamentals |-> Get(input_data, "fundamentals", << >>),
                   df |-> DataFrame(HistoricalData(input_data))]
             /\ anStatus' = <<"calculating technical indicators">>
             /\ anPc' = "indicators"
             /\ UNCHANGED <<anResult, anError, anRet>>
  /\ UNCHANGED <<anInvoked, anCalls, dcVars>>

\* the moving averages, the RSI and the technical analysis summary
AIndicators ==
  /\ anPc = "indicators"
  /\ LET df == WithIndicators(anFrame.df)
     IN anFrame' = [anFrame EXCEPT !.df = df] @@ [technical_analysis |-> TechnicalAnalysis(df)]
  /\ anStatus' = <<"generating analysis and recommendation">>
  /\ anPc' = "call_ollama"
  /\ UNCHANGED <<anResult, anError, anRet, anInvoked, anCalls, dcVars>>

\* ((last - first) / first) * 100: a float division, inf or NaN on a zero
PercentChange(last, first) ==
  IF first = 0 THEN NaN ELSE Num(100 * (last - first), first)

\* the analysis prompt, by the values its five sections interpolate
APrompt(f) ==
  LET close == f.df["Close"]
      n == Len(close)
      info == f.company_info
  IN [symbol |-> f.symbol,
      company |-> <<Get(info, "longName", f.symbol),
                    Get(info, "sector", ""), Get(info, "industry", "")>>,
      technical |-> f.technical_analysis,
      fundamentals |-> {k \in {"marketCap", "trailingPE", "dividendYield"} :
                          Get(info, k, 0) # 0},
      headlines |-> [i \in 1..Len(Slice(f.news, 0, NewsLimit)) |-> Get(f.news[i], "title", "None")],
      period_change |-> PercentChange(close[n], close[1]),
      month_change |-> IF n >= MonthSpan
                       THEN PercentChange(close[n], close[n - MonthSpan + 1])
                       ELSE NaN]

\* the result of a successful analysis; now is datetime.now()
AResult(f, analysis, now) ==
  [success |-> TRUE,
   symbol |-> f.symbol,
   period |-> Get(f.input_data, "period", "None"),
   period_description |-> f.period,
   company_info |-> f.company_info,
   analysis |-> analysis,
   recommendation |-> ExtractRecommendation(analysis),
   confidence |-> ExtractConfidence(analysis),
   technical_indicators |-> f.technical_analysis,
   chart_data |-> ChartData(f.df, f.historical_data),
   timestamp |-> now]

\* analysis = self._call_ollama(prompt, ...), the extraction, the chart data,
\* the result, return
ACallOllama(outcomes) ==
  /\ anPc = "call_ollama"
  /\ \E o \in outcomes :
       /\ anInvoked' = Append(anInvoked, Call("_call_ollama", <<APrompt(anFrame)>>, o))
       /\ IF o.kind = "raise" THEN AFail(o.message)
          ELSE \E result \in {AResult(anFrame, o.value, anCalls)} :
                  /\ anResult' = Some(result)
                  /\ anStatus' = <<"completed">>
                  /\ anRet' = Some(result)
                  /\ anPc' = "ready"
                  /\ anFrame' = [input_data |-> anFrame.input_data]
                  /\ UNCHANGED anError
  /\ UNCHANGED <<anCalls, dcVars>>


\* ------------------------------------------------------------ the inputs
\* the day-over-day delta of a generated series before its free tail
ShapeDelta(shape, i) ==
  IF shape = "up" THEN 2
  ELSE IF shape = "down" THEN -2
  ELSE IF shape = "flat" THEN 0
  ELSE IF i % 2 = 0 THEN 3 ELSE -3

RECURSIVE GenClose(_, _, _, _)
GenClose(shape, tail, n, acc) ==
  IF Len(acc) >= n THEN acc
  ELSE LET i == Len(acc) + 1
           delta == IF i > n - Len(tail) THEN tail[i - (n - Len(tail))]
                    ELSE ShapeDelta(shape, i)
       IN GenClose(shape, tail, n,
                   Append(acc, IF i = 1 THEN 1000 ELSE acc[i - 1] + delta))

\* a price series of n daily records, ascending unique dates
GenSeries(shape, tail, n) ==
  LET close == GenClose(shape, tail, n, << >>)
  IN [i \in 1..n |-> [Date |-> <<"iso", i>>, Close |-> close[i], Volume |-> 5000 + i]]

Shapes == {"up", "down", "flat", "zigzag"}
Tails == [1..FreeTail -> {-1, 0, 1}]
Lengths == {1, MinPoints - 1, MinPoints} \cup {MinPoints + k : k \in 1..MaxExtra}

RisingTail == [i \in 1..FreeTail |-> 1]
ShortSeries == GenSeries("up", RisingTail, 2)
LongSeries == GenSeries("up", RisingTail, MinPoints)
OtherSeries == GenSeries("down", RisingTail, 3)

AcmeInfo == [longName |-> "Acme Corp", sector |-> "Industrials", marketCap |-> 5, trailingPE |-> 12]
AcmeNews == <<[title |-> "Acme beats estimates"], [title |-> "Acme recalls anvils"]>>
AcmeFundamentals == [balance_sheet |-> "bs", income_statement |-> "is", cash_flow |-> "cf"]

Chars(n, c) == [i \in 1..n |-> c]
T_Recommendation == <<"R","e","c","o","m","m","e","n","d","a","t","i","o","n">>
T_recommendation == <<"r","e","c","o","m","m","e","n","d","a","t","i","o","n">>

\* "**RECOMMENDATION: SELL**\n**CONFIDENCE: HIGH**"
SellHighReply ==
  <<"*","*">> \o T_RECOMMENDATION \o <<":"," ">> \o T_SELL \o <<"*","*","\n">>
  \o <<"*","*">> \o T_CONFIDENCE \o <<":"," ">> \o T_HIGH \o <<"*","*">>
\* "The outlook is mixed."
PlainReply ==
  <<"T","h","e"," ","o","u","t","l","o","o","k"," ","i","s"," ","m","i","x","e","d",".">>

\* the segments a generated reply is made of:
\*   "**RECOMMENDATION: SELL**"     "RECOMMENDATION: BUY\n"
\*   "7. Recommendation\n"          "**RECOMMENDATION:** HOLD"
\*   "recommendation: see below"    31 dots
\*   " buy "                        " BUY "
\*   "**CONFIDENCE: HIGH**"         "CONFIDENCE level: MEDIUM"
\*   "ß"
Segments ==
  << <<"*","*">> \o T_RECOMMENDATION \o <<":"," ">> \o T_SELL \o <<"*","*">>,
     T_RECOMMENDATION \o <<":"," ">> \o T_BUY \o <<"\n">>,
     <<"7","."," ">> \o T_Recommendation \o <<"\n">>,
     <<"*","*">> \o T_RECOMMENDATION \o <<":","*","*"," ">> \o T_HOLD,
     T_recommendation \o <<":"," ","s","e","e"," ","b","e","l","o","w">>,
     Chars(RecHead + 1, "."),
     <<" ","b","u","y"," ">>,
     <<" ">> \o T_BUY \o <<" ">>,
     <<"*","*">> \o T_CONFIDENCE \o <<":"," ">> \o T_HIGH \o <<"*","*">>,
     T_CONFIDENCE \o <<" ","l","e","v","e","l",":"," ">> \o T_MEDIUM,
     <<"ß">> >>

RECURSIVE Concat(_)
Concat(segs) == IF segs = << >> THEN << >> ELSE Segments[Head(segs)] \o Concat(Tail(segs))

\* the generated replies: up to MaxSegs segments, concatenated
Replies == {Concat(segs) : segs \in UNION {[1..k -> DOMAIN Segments] : k \in 0..MaxSegs}}

\* the replies with two keywords after each header:
\*   "RECOMMENDATION: <k1>, not <k2>\nCONFIDENCE: <c1> to <c2>"
\* where each keyword may also be left out
KeywordReply(k1, k2, c1, c2) ==
  T_RECOMMENDATION \o <<":"," ">> \o k1 \o <<","," ","n","o","t"," ">> \o k2 \o <<"\n">>
  \o T_CONFIDENCE \o <<":"," ">> \o c1 \o <<" ","t","o"," ">> \o c2
KeywordReplies ==
  {KeywordReply(k1, k2, c1, c2) :
     k1 \in {T_BUY, T_SELL, T_HOLD, << >>}, k2 \in {T_BUY, T_SELL, T_HOLD, << >>},
     c1 \in {T_HIGH, T_MEDIUM, T_LOW, << >>}, c2 \in {T_HIGH, T_MEDIUM, T_LOW, << >>}}

\* what the collaborators may do
StockDataOutcomes(series) ==
  {Return([success |-> TRUE, data |-> d, info |-> AcmeInfo, source |-> "yfinance"]) : d \in series}
  \cup {Return([success |-> TRUE, data |-> ShortSeries, info |-> AcmeInfo]),
        Return([success |-> FALSE, error |-> "No data found for symbol"]),
        Raise("fetch_stock_data: connection refused")}
NewsOutcomes == {Return(AcmeNews), Return(<< >>), Raise("fetch_news: timed out")}
FundamentalsOutcomes ==
  {Return(AcmeFundamentals), Return(<< >>), Raise("get_stock_fundamentals: no statements")}
OllamaOutcomes(replies) == {Return(r) : r \in replies} \cup {Raise("Ollama is not reachable")}

\* the inputs of DataCollectorAgent.process
DCInputs ==
  {<< >>, [symbol |-> ""], [symbol |-> "ACME"], [period |-> "1mo"],
   [symbol |-> "ACME", period |-> "1y"], [symbol |-> "ACME", period |-> "1mo"],
   [symbol |-> "ACME", period |-> "2w"]}

\* the bundle DataCollectorAgent.process returns for a price series
Bundle(series) ==
  DCResult([symbol |-> "ACME", period |-> "1y",
            historical_data |-> [success |-> TRUE, data |-> series,
                                 info |-> AcmeInfo, source |-> "yfinance"],
            news |-> AcmeNews, fundamentals |-> AcmeFundamentals],
           PlainReply, 1)

\* the inputs of AnalysisAgent.process: bundles of the collection stage, its
\* error envelope, and mappings with fields missing or empty
AInputs ==
  {Bundle(s) : s \in {<< >>, ShortSeries, LongSeries}}
  \cup {ErrorEnvelope("No data found for symbol"),
        << >>,
        [success |-> TRUE],
        [success |-> FALSE, chart_data |-> ShortSeries],
        [success |-> TRUE, symbol |-> "ACME", chart_data |-> ShortSeries],
        [success |-> TRUE, historical_data |-> [data |-> << >>], chart_data |-> LongSeries],
        [success |-> TRUE, historical_data |-> [data |-> OtherSeries],
         chart_data |-> ShortSeries, company_info |-> AcmeInfo]}

\* ------------------------------------------------------ the specifications
\* The two agents are separate objects sharing no state and process is
\* synchronous: a behaviour drives one of the two agents, through up to
\* `limit` process calls.
DCProcess(inputs, limit) ==
  /\ dcCalls < limit /\ anCalls = 0
  /\ \E input_data \in inputs : DCBegin(input_data)

AProcess(inputs, limit) ==
  /\ anCalls < limit /\ dcCalls = 0
  /\ \E input_data \in inputs : ABegin(input_data)

Next ==
  \/ DCProcess(DCInputs, MaxCalls)
  \/ DCValidate
  \/ DCFetchStockData(StockDataOutcomes({<< >>, LongSeries}))
  \/ DCFetchNews(NewsOutcomes)
  \/ DCFetchFundamentals(FundamentalsOutcomes)
  \/ DCCallOllama(OllamaOutcomes({PlainReply}))
  \/ AProcess(AInputs, MaxCalls)
  \/ AValidate
  \/ AIndicators
  \/ ACallOllama(OllamaOutcomes({PlainReply, SellHighReply}))

Spec == Init /\ [][Next]_vars

\* one analysis of each generated price series
NextSeries ==
  \/ AProcess({Bundle(GenSeries(shape, tail, n)) :
                 shape \in Shapes, tail \in Tails, n \in Lengths}, 1)
  \/ AValidate
  \/ AIndicators
  \/ ACallOllama(OllamaOutcomes({SellHighReply}))

SpecSeries == Init /\ [][NextSeries]_vars

\* one analysis with each generated reply
NextReplies ==
  \/ AProcess({Bundle(ShortSeries)}, 1)
  \/ AValidate
  \/ AIndicators
  \/ ACallOllama(OllamaOutcomes(Replies))

SpecReplies == Init /\ [][NextReplies]_vars

\* one analysis with each two-keyword reply
NextKeywords ==
  \/ AProcess({Bundle(ShortSeries)}, 1)
  \/ AValidate
  \/ AIndicators
  \/ ACallOllama(OllamaOutcomes(KeywordReplies))

SpecKeywords == Init /\ [][NextKeywords]_vars

\* ---------------------------------------------------------------- claims
DCReturned == dcPc = "ready" /\ dcCalls > 0
AReturned == anPc = "ready" /\ anCalls > 0
Raised(log) == log # << >> /\ log[Len(log)].outcome.kind = "raise"

\* ret holds a returned mapping with a success flag, and a failure is exactly
\* {success: False, error: <the held message>}
IsEnvelope(ret, error) ==
  /\ ret # None
  /\ "success" \in DOMAIN ret[1]
  /\ ret[1].success \in BOOLEAN
  /\ ~ret[1].success =>
       /\ DOMAIN ret[1] = {"success", "error"}
       /\ error = Some(ret[1].error)

\* C1: process of either stage never raises across its boundary. Whenever a
\* call is over, a mapping was returned; a failure is the envelope
\* {success: False, error: message}; and when a collaborator raised, the
\* envelope carries that exception's message.
C1_NeverRaises ==
  /\ DCReturned => /\ IsEnvelope(dcRet, dcError)
                   /\ Raised(dcInvoked) =>
                        dcRet = Some(ErrorEnvelope(dcInvoked[Len(dcInvoked)].outcome.message))
  /\ AReturned => /\ IsEnvelope(anRet, anError)
                  /\ Raised(anInvoked) =>
                       anRet = Some(ErrorEnvelope(anInvoked[Len(anInvoked)].outcome.message))

\* C1's case: the text-generation service raised in the collection stage
\* after all three providers returned, and the call is over
C1_Witness ==
  /\ DCReturned /\ Len(dcInvoked) = 4 /\ Raised(dcInvoked)
  /\ dcRet = Some(ErrorEnvelope("Ollama is not reachable"))

Recommendations == {"BUY", "SELL", "HOLD"}
Confidences == {"HIGH", "MEDIUM", "LOW"}

\* whether word occurs in text, letter case ignored, one character at a time
HasHeader(text, word) ==
  \E i \in 0..(Len(text) - Len(word)) :
    \A k \in 1..Len(word) : UpperChar(text[i + k]) = <<word[k]>>

\* C2: a successful analysis result has recommendation in {BUY, SELL, HOLD}
\* and confidence in {HIGH, MEDIUM, LOW}, whatever the reply text; a reply
\* without a recommendation header gives HOLD, one without a confidence
\* header gives LOW, and every reply the service returns gives a success.
C2_RecommendationEnum ==
  AReturned =>
    /\ anRet[1].success =>
         /\ anRet[1].recommendation \in Recommendations
         /\ anRet[1].confidence \in Confidences
         /\ ~HasHeader(anRet[1].analysis, T_RECOMMENDATION) => anRet[1].recommendation = "HOLD"
         /\ ~HasHeader(anRet[1].analysis, T_CONFIDENCE) => anRet[1].confidence = "LOW"
    /\ (anInvoked # << >> /\ ~Raised(anInvoked)) => anRet[1].success

\* C2's case: a successful result for a non-empty reply with neither header
C2_Witness ==
  /\ AReturned /\ anRet[1].success
  /\ anRet[1].analysis # << >>
  /\ ~HasHeader(anRet[1].analysis, T_RECOMMENDATION)
  /\ ~HasHeader(anRet[1].analysis, T_CONFIDENCE)
  /\ anRet[1].recommendation = "HOLD" /\ anRet[1].confidence = "LOW"

DCSubLabels == {"processing", "collecting historical data for", "collecting news for",
                "collecting fundamentals for"}
ASubLabels == {"processing", "calculating technical indicators",
               "generating analysis and recommendation"}

\* the status discipline of one agent, as a state predicate
StatusInv(status, pc, calls, ret, labels) ==
  /\ pc # "ready" => status[1] \in labels
  /\ (pc = "ready" /\ calls = 0) => status = <<"idle">>
  /\ (pc = "ready" /\ calls > 0) =>
       /\ status \in {<<"completed">>, <<"error">>}
       /\ status = <<"completed">> <=> ret[1].success
       /\ status = <<"error">> <=> ~ret[1].success

\* the status discipline of one agent, step by step
StatusStep(status, statusNext, pc, pcNext, log, logNext) ==
  /\ (pc = "ready" /\ pcNext # "ready") => statusNext = <<"processing">>
  /\ Len(logNext) > Len(log) =>
       (pc # "ready" /\ status[1] \notin {"idle", "completed", "error"})
  /\ (pc # "ready" /\ pcNext = "ready") => statusNext \in {<<"completed">>, <<"error">>}

\* C3: the status goes idle -> processing -> {completed, error}. Each call
\* sets "processing" first, before any collaborator is invoked; while the
\* call runs the status is "processing" or a descriptive sub-label; when it
\* returns the status is "completed" exactly when the envelope has success
\* true and "error" exactly when it has success false.
C3_StatusMachine ==
  /\ [](StatusInv(dcStatus, dcPc, dcCalls, dcRet, DCSubLabels)
        /\ StatusInv(anStatus, anPc, anCalls, anRet, ASubLabels))
  /\ [][StatusStep(dcStatus, dcStatus', dcPc, dcPc', dcInvoked, dcInvoked')
        /\ StatusStep(anStatus, anStatus', anPc, anPc', anInvoked, anInvoked')]_vars

\* C3's case: a second call has returned an error after a first one completed
C3_Witness ==
  /\ DCReturned /\ dcCalls = 2
  /\ dcStatus = <<"error">> /\ dcResult # None /\ ~dcRet[1].success

ProviderFailed(log) ==
  /\ log # << >>
  /\ log[1].call = "fetch_stock_data"
  /\ log[1].outcome.kind = "return"
  /\ ~log[1].outcome.value.success

\* C4: when the price/company provider reports failure, the collection stage
\* returns {success: False, error: <provider error>} at once: nothing else is
\* invoked in that run.
C4_PriceFailureStops ==
  ProviderFailed(dcInvoked) =>
    /\ dcPc = "ready"
    /\ Len(dcInvoked) = 1
    /\ dcRet = Some(ErrorEnvelope(dcInvoked[1].outcome.value.error))
    /\ dcStatus = <<"error">>

\* C4's case: the provider has reported failure
C4_Witness == ProviderFailed(dcInvoked) /\ DCReturned

PriceOk(log) ==
  /\ log # << >>
  /\ log[1].outcome.kind = "return"
  /\ log[1].outcome.value.success

\* a news or fundamentals call that failed: it raised, or it came back empty
ProviderDegraded(o) == o.kind = "return" /\ Empty(o.value)
ProviderCallFailed(o) == o.kind = "raise" \/ ProviderDegraded(o)

InputValid(input) == "success" \in DOMAIN input /\ input.success
InputPrimary(input) ==
  IF "historical_data" \in DOMAIN input /\ "data" \in DOMAIN input.historical_data
  THEN input.historical_data.data ELSE << >>
InputAlternate(input) == IF "chart_data" \in DOMAIN input THEN input.chart_data ELSE << >>

\* the result was computed from this price series
AnalysisOf(result, series) ==
  /\ Len(result.chart_data) = Len(series)
  /\ \A i \in 1..Len(series) : result.chart_data[i].date = series[i].Date
                               /\ result.chart_data[i].close = series[i].Close

\* C6: the analysis stage validates its input first. Without a true success
\* flag it fails with "Invalid input data"; with an empty primary series and
\* an empty chart_data it fails with "No historical data available for
\* analysis"; in both cases the text-generation service is not invoked. With
\* an empty primary series and a non-empty chart_data it analyses chart_data,
\* otherwise the primary series.
C6_InputValidation ==
  (anCalls > 0 /\ anPc # "validate") =>
    LET input == anFrame.input_data
        primary == InputPrimary(input)
        alternate == InputAlternate(input)
        used == IF primary = << >> THEN alternate ELSE primary
    IN /\ ~InputValid(input) =>
            /\ anPc = "ready" /\ anInvoked = << >>
            /\ anRet = Some(ErrorEnvelope("Invalid input data"))
       /\ (InputValid(input) /\ primary = << >> /\ alternate = << >>) =>
            /\ anPc = "ready" /\ anInvoked = << >>
            /\ anRet = Some(ErrorEnvelope("No historical data available for analysis"))
       /\ (InputValid(input) /\ used # << >>) =>
            /\ anPc # "ready" => anFrame.historical_data = used
            /\ (anPc = "ready" /\ anRet[1].success) => AnalysisOf(anRet[1], used)
            /\ anPc = "ready" => Len(anInvoked) = 1

\* C6's case: the primary series was empty and the analysis of chart_data
\* succeeded
C6_Witness ==
  /\ AReturned /\ InputValid(anFrame.input_data)
  /\ InputPrimary(anFrame.input_data) = << >>
  /\ InputAlternate(anFrame.input_data) # << >>
  /\ anRet[1].success

FullIndicatorFields == {"latest_close", "ma20_signal", "ma50_signal", "rsi", "trend"}

\* C7: for a non-empty series of fewer than 50 points the analysis stage
\* does not fail on that account: the text-generation service is invoked with
\* the placeholder in its prompt, and when it replies the stage succeeds with
\* technical_indicators being the single error placeholder; from 50 points on
\* technical_indicators is the full record.
C7_ShortSeriesPlaceholder ==
  (AReturned /\ InputValid(anFrame.input_data) /\ InputPrimary(anFrame.input_data) # << >>) =>
    LET n == Len(InputPrimary(anFrame.input_data))
        placeholder == [error |-> "Not enough data points for technical analysis"]
    IN /\ Len(anInvoked) = 1 /\ anInvoked[1].call = "_call_ollama"
       /\ anRet[1].success <=> ~Raised(anInvoked)
       /\ n < 50 => anInvoked[1].args[1].technical = placeholder
       /\ (anRet[1].success /\ n < 50) => anRet[1].technical_indicators = placeholder
       /\ (anRet[1].success /\ n >= 50) =>
            DOMAIN anRet[1].technical_indicators = FullIndicatorFields

\* C7's case: a series of exactly 49 points was analysed successfully
C7_Witness ==
  /\ AReturned /\ InputValid(anFrame.input_data)
  /\ Len(InputPrimary(anFrame.input_data)) = 49
  /\ anRet[1].success
  /\ DOMAIN anRet[1].technical_indicators = {"error"}

\* the first 30 characters of the stripped window that starts at offset `at`
\* of the reply
WindowHead(text, at) == Slice(Strip(Slice(text, at, at + RecWindow)), 0, RecHead)
HasKeyword(head) == Contains(head, T_BUY) \/ Contains(head, T_SELL) \/ Contains(head, T_HOLD)
Decide(head) ==
  IF Contains(head, T_BUY) THEN "BUY"
  ELSE IF Contains(head, T_SELL) THEN "SELL"
  ELSE "HOLD"

\* what the windows after the first header of the reply decide: the first
\* occurrence of the word RECOMMENDATION, in each accepted spelling it has
FirstHeaderDecisions(text) ==
  LET up == Upper(text)
      w == Find(up, T_RECOMMENDATION)
  IN IF w = -1 THEN {"HOLD"}
     ELSE {Decide(WindowHead(text, w + Len(rec_patterns[3])))}
          \cup (IF MatchAt(up, rec_patterns[1], w) /\ w + Len(rec_patterns[1]) <= Len(up)
                THEN {Decide(WindowHead(text, w + Len(rec_patterns[1])))} ELSE {})
          \cup (IF w >= 2 /\ w - 2 + Len(rec_patterns[2]) <= Len(up)
                   /\ MatchAt(up, rec_patterns[2], w - 2)
                THEN {Decide(WindowHead(text, w - 2 + Len(rec_patterns[2])))} ELSE {})

\* C8 as claimed: the recommendation is decided by the first occurrence in
\* the reply of any accepted header spelling and the window after it; no
\* header occurring later overrides it.
C8_FirstHeaderWins ==
  (AReturned /\ anRet[1].success) =>
    anRet[1].recommendation \in FirstHeaderDecisions(anRet[1].analysis)

\* the spellings, in the order tried, whose first occurrence in the
\* case-folded reply is followed by a window with a keyword in its head
DecidingSpellings(text) ==
  {k \in 1..Len(rec_patterns) :
     LET idx == Find(Upper(text), rec_patterns[k])
     IN idx # -1 /\ HasKeyword(WindowHead(text, idx + Len(rec_patterns[k])))}

\* C8, amended: the spellings "RECOMMENDATION:", "**RECOMMENDATION:**",
\* "RECOMMENDATION" are tried in that order; of each only the first
\* occurrence in the case-folded reply counts, with the window after it; the
\* first spelling in that order whose window has a keyword in its first 30
\* characters decides, and HOLD stays when none has.
C8_SpellingOrderWins ==
  (AReturned /\ anRet[1].success) =>
    LET text == anRet[1].analysis
        deciding == DecidingSpellings(text)
    IN IF deciding = {} THEN anRet[1].recommendation = "HOLD"
       ELSE LET k == CHOOSE j \in deciding : \A m \in deciding : j <= m
            IN anRet[1].recommendation =
                 Decide(WindowHead(text, Find(Upper(text), rec_patterns[k]) + Len(rec_patterns[k])))

\* C8's case: "**RECOMMENDATION: SELL**", then text that fills the window,
\* then an unrelated BUY and a later BUY header; the result is SELL
C8_Witness ==
  /\ AReturned /\ anRet[1].success
  /\ anRet[1].analysis = Segments[1] \o Segments[6] \o Segments[2]
  /\ anRet[1].recommendation = "SELL"

RECURSIVE CloseSum(_, _, _)
CloseSum(series, from, to) ==
  IF from > to THEN 0 ELSE series[to].Close + CloseSum(series, from, to - 1)

\* C9: chart_data has one point per record of the price series, in order,
\* each with the record's date, close and volume; a point has ma20 (ma50)
\* exactly when the series has at least 50 points and the point is the 20th
\* (50th) or later, and then the value is the mean of the 20 (50) closes
\* ending at it; no point carries a placeholder.
C9_ChartData ==
  (AReturned /\ anRet[1].success) =>
    LET series == InputPrimary(anFrame.input_data)
        chart == anRet[1].chart_data
        n == Len(series)
    IN /\ Len(chart) = n
       /\ \A i \in 1..n :
            /\ chart[i].date = series[i].Date
            /\ chart[i].close = series[i].Close
            /\ chart[i].volume = series[i].Volume
            /\ DOMAIN chart[i] \subseteq {"date", "close", "volume", "ma20", "ma50"}
            /\ "ma20" \in DOMAIN chart[i] <=> (n >= 50 /\ i >= 20)
            /\ "ma50" \in DOMAIN chart[i] <=> (n >= 50 /\ i >= 50)
            /\ "ma20" \in DOMAIN chart[i] =>
                 chart[i].ma20 = [nan |-> FALSE, num |-> CloseSum(series, i - 19, i), den |-> 20]
            /\ "ma50" \in DOMAIN chart[i] =>
                 chart[i].ma50 = [nan |-> FALSE, num |-> CloseSum(series, i - 49, i), den |-> 50]

\* C9's case: a 51-point series: the 19th point has no ma20, the 20th has,
\* the 49th has no ma50, the 50th has
C9_Witness ==
  /\ AReturned /\ anRet[1].success
  /\ Len(anRet[1].chart_data) = 51
  /\ "ma20" \notin DOMAIN anRet[1].chart_data[19]
  /\ "ma20" \in DOMAIN anRet[1].chart_data[20]
  /\ "ma50" \notin DOMAIN anRet[1].chart_data[49]
  /\ "ma50" \in DOMAIN anRet[1].chart_data[50]

\* the sum of the positive (sign = 1) or negative (sign = -1) day-over-day
\* moves of the closes from..to
RECURSIVE MoveSum(_, _, _, _)
MoveSum(series, from, to, sign) ==
  IF from > to THEN 0
  ELSE LET move == sign * (series[to].Close - series[to - 1].Close)
       IN (IF move > 0 THEN move ELSE 0) + MoveSum(series, from, to - 1, sign)

\* C10 as claimed: for a series of at least 50 points the reported RSI is a
\* number in [0, 100]; it is exactly 100 whenever the 14-period average loss
\* at the latest point is zero, and 0 when only losses occurred.
C10_RsiBounded ==
  (AReturned /\ anRet[1].success /\ Len(InputPrimary(anFrame.input_data)) >= 50) =>
    LET series == InputPrimary(anFrame.input_data)
        n == Len(series)
        gains == MoveSum(series, n - 13, n, 1)
        losses == MoveSum(series, n - 13, n, -1)
        rsi == anRet[1].technical_indicators.rsi
    IN /\ ~rsi.nan
       /\ 0 <= rsi.num /\ rsi.num <= 100 * rsi.den
       /\ losses = 0 => rsi.num = 100 * rsi.den
       /\ (gains = 0 /\ losses > 0) => rsi.num = 0

\* what one step of an agent may do to its held result and error: a step
\* that returns a success holds exactly the returned output and keeps the
\* error; a step that returns a failure holds exactly the returned message
\* and keeps the result; any other step keeps both
HeldStep(result, resultNext, error, errorNext, pc, pcNext, retNext) ==
  IF pc # "ready" /\ pcNext = "ready"
  THEN /\ retNext # None
       /\ IF retNext[1].success
          THEN resultNext = Some(retNext[1]) /\ errorNext = error
          ELSE errorNext = Some(retNext[1].error) /\ resultNext = result
  ELSE resultNext = result /\ errorNext = error

\* C11: on either agent the held result is the output of the most recent
\* call that succeeded and the held error the message of the most recent
\* call that failed: only a returning step changes them, a success replaces
\* the result by what it returns and leaves the error, a failure replaces
\* the error by what it returns and leaves the result.
C11_HeldOutputs ==
  [][/\ HeldStep(dcResult, dcResult', dcError, dcError', dcPc, dcPc', dcRet')
     /\ HeldStep(anResult, anResult', anError, anError', anPc, anPc', anRet')]_vars

\* C11's case: the second call failed after the first succeeded; the result
\* of the first call is still held, next to the second call's message
C11_Witness ==
  /\ DCReturned /\ dcCalls = 2
  /\ ~dcRet[1].success
  /\ dcError = Some(dcRet[1].error)
  /\ dcResult # None /\ dcResult[1].success /\ dcResult[1].timestamp = 1

\* the period code the collection stage works with for an input
PeriodCodeFor(input) ==
  IF "period" \in DOMAIN input /\ input.period \in DOMAIN TIME_PERIODS
  THEN input.period
  ELSE "1y"

\* C12: once the input of a collection call is validated, a non-empty symbol
\* with a missing or unknown period code has not failed on that account: the
\* price provider is the first collaborator called, with the 1-year code,
\* and a returned bundle carries the 1-year code and its description; a
\* missing or empty symbol has failed with no provider called.
C12_PeriodDefault ==
  (dcCalls > 0 /\ dcPc # "validate") =>
    LET input == dcFrame.input_data
        code == PeriodCodeFor(input)
    IN IF "symbol" \notin DOMAIN input \/ input.symbol = ""
       THEN /\ dcPc = "ready"
            /\ dcRet = Some(ErrorEnvelope("Stock symbol is required"))
            /\ dcInvoked = << >>
       ELSE /\ dcPc = "fetch_stock_data" \/ dcInvoked # << >>
            /\ dcInvoked # << >> =>
                 /\ dcInvoked[1].call = "fetch_stock_data"
                 /\ dcInvoked[1].args = <<input.symbol, code>>
            /\ (dcPc = "ready" /\ dcRet[1].success) =>
                 /\ dcRet[1].period = code
                 /\ dcRet[1].period_description = TIME_PERIODS[code]

\* C12's case: the unknown code "2w" was given; the price provider was asked
\* for "1y" and the bundle says "1y"
C12_Witness ==
  /\ DCReturned /\ dcRet[1].success
  /\ dcFrame.input_data = [symbol |-> "ACME", period |-> "2w"]
  /\ dcInvoked[1].args = <<"ACME", "1y">>
  /\ dcRet[1].period = "1y" /\ dcRet[1].period_description = TIME_PERIODS["1y"]

RecKeywords ==
  {[text |-> T_BUY, name |-> "BUY"], [text |-> T_SELL, name |-> "SELL"],
   [text |-> T_HOLD, name |-> "HOLD"]}
ConfKeywords ==
  {[text |-> T_HIGH, name |-> "HIGH"], [text |-> T_MEDIUM, name |-> "MEDIUM"],
   [text |-> T_LOW, name |-> "LOW"]}

\* the inspected head of the window after the matched header: of the
\* spellings whose first occurrence is followed by a window with a keyword
\* in its head, the first in the order tried; empty when there is none
MatchedHead(text, patterns, keywords, window, head) ==
  LET up == Upper(text)
      heads == [k \in DOMAIN patterns |->
                  LET idx == Find(up, patterns[k])
                  IN IF idx = -1 THEN << >>
                     ELSE Slice(Strip(Slice(text, idx + Len(patterns[k]),
                                            idx + Len(patterns[k]) + window)), 0, head)]
      deciding == {k \in DOMAIN patterns : \E w \in keywords : Contains(heads[k], w.text)}
  IN IF deciding = {} THEN << >>
     ELSE heads[CHOOSE k \in deciding : \A m \in deciding : k <= m]

\* the keyword whose first occurrence in the head comes earliest
EarliestKeyword(head, keywords, default) ==
  LET present == {w \in keywords : Contains(head, w.text)}
  IN IF present = {} THEN default
     ELSE (CHOOSE w \in present : \A v \in present : Find(head, w.text) <= Find(head, v.text)).name

\* C13 as claimed: within the window after the matched header the keyword
\* that occurs earliest wins: the recommendation is whichever of BUY, SELL,
\* HOLD comes first in the first 30 characters of the 100-character window,
\* the confidence whichever of HIGH, MEDIUM, LOW comes first in the first 15
\* characters of the 50-character window, and the defaults HOLD and LOW stay
\* when none appears.
C13_EarliestKeywordWins ==
  (AReturned /\ anRet[1].success) =>
    /\ anRet[1].recommendation =
         EarliestKeyword(MatchedHead(anRet[1].analysis, rec_patterns, RecKeywords,
                                     RecWindow, RecHead), RecKeywords, "HOLD")
    /\ anRet[1].confidence =
         EarliestKeyword(MatchedHead(anRet[1].analysis, conf_patterns, ConfKeywords,
                                     ConfWindow, ConfHead), ConfKeywords, "LOW")
====
